---- MODULE Spec2Model ----
(***************************************************************************)
(* Model of the TCP acceptor / handshake engine TcpNetwork                 *)
(* (src/Old/network/tcp/net.rs): the pending connection table, the poll    *)
(* loop of run(), the command channel and the round-robin dispatch to the  *)
(* TcpReader workers.                                                      *)
(*                                                                         *)
(* TcpConn (network/tcp/conn.rs) is not part of the sources at hand; its   *)
(* methods are modelled from the specification and from the way net.rs     *)
(* uses their results.                                                     *)
(***************************************************************************)
EXTENDS Integers, Sequences, FiniteSets, TLC

\* ------------------------------------------------------------------ bounds
\* connections ever created (accepted from the listener or adopted)
MaxConns == 2
\* commands ever sent on the command channel
MaxCmds == 2
\* the same two bounds of the specification that follows the dispatch ring
RingConns == 1
RingCmds == 3
\* events returned by one poll
MaxBatch == 2
\* readers_count, the size of the worker pool passed to run()
ReadersCount == 2
\* bytes a socket takes when it takes only a part of what is queued
PartialWrite == 6

\* --------------------------------------------------------------- constants
TCP_SERVER_TOKEN == 0
RECEIVER_CHANNEL_TOKEN == 1
CURRENT_API_VERSION == 1
\* '|' : the separator between token and value in the handshake payload
TOKEN_VALUE_SEP == 124
\* first identifier handed to a connection's socket (0 and 1 are taken)
FirstConnToken == 2

\* identity of this node: current_token "n", current_value 7
current_token == <<110>>
current_value == 7

\* identities of the peers: ("a", 1) and ("b", 12)
PeerIdentities == { [token |-> <<97>>, value |-> 1], [token |-> <<98>>, value |-> 12] }
\* tokens carried by AcceptPendingConnection commands: "a", "b"
CommandTokens == { <<97>>, <<98>> }

\* ------------------------------------------------------------ wire format
\* BigEndian::write_u32
write_u32(n) ==
    << (n \div 16777216) % 256, (n \div 65536) % 256, (n \div 256) % 256, n % 256 >>

\* BigEndian::read_u32
read_u32(b) == ((b[1] * 256 + b[2]) * 256 + b[3]) * 256 + b[4]

\* BigInt::to_str_radix(10), as bytes
RECURSIVE to_str_radix(_)
to_str_radix(n) ==
    IF n < 10 THEN << 48 + n >>
    ELSE to_str_radix(n \div 10) \o << 48 + (n % 10) >>

\* the buffer with the length of the token alone in the length field
send_data_token_length(token, value) ==
    LET token_value == token \o << TOKEN_VALUE_SEP >> \o to_str_radix(value)
    IN  write_u32(CURRENT_API_VERSION) \o write_u32(Len(token)) \o token_value

\* the buffer write_handshake_info builds for the identity (token, value)
send_data(token, value) ==
    LET token_value == token \o << TOKEN_VALUE_SEP >> \o to_str_radix(value)
    IN  write_u32(CURRENT_API_VERSION) \o write_u32(Len(token_value)) \o token_value

\* position of the first separator in a payload, 0 when there is none
RECURSIVE SepIndex(_, _)
SepIndex(payload, i) ==
    IF i > Len(payload) THEN 0
    ELSE IF payload[i] = TOKEN_VALUE_SEP THEN i
    ELSE SepIndex(payload, i + 1)

\* what a peer puts on the wire: the handshake of a node running this code,
\* or a stream whose payload holds no separator
MalformedStream == write_u32(CURRENT_API_VERSION) \o write_u32(2) \o << 97, 49 >>
PeerStreams == { send_data(p.token, p.value) : p \in PeerIdentities } \cup { MalformedStream }

\* the byte counts at which a peer's stream may pause: inside the version,
\* after the version, inside the identity, complete
CutPoints(stream) == { 2, 4, Len(stream) - 1, Len(stream) }


\* ------------------------------------------------------------------ helpers
Remove(f, k) == [x \in DOMAIN f \ {k} |-> f[x]]
Insert(f, k, v) == [x \in DOMAIN f \cup {k} |-> IF x = k THEN v ELSE f[x]]
Min(S) == CHOOSE x \in S : \A y \in S : x <= y
MinOf(a, b) == IF a <= b THEN a ELSE b

\* ------------------------------------------------------------------ TcpConn
\* TcpConn::new(socket): no version, no identity, nothing queued.  rd counts
\* the bytes of the peer's handshake the connection has consumed so far.
TcpConn_new(socket) ==
    [ socket_token |-> socket, from_server |-> FALSE, api_version |-> 0, rd |-> 0,
      conn_value |-> <<>>, write_queue |-> <<>>, write_off |-> 0 ]

\* TcpConn::add_writable_data
add_writable_data(conn, data) ==
    [conn EXCEPT !.write_queue = Append(@, data)]

\* TcpConn::add_conn_value
add_conn_value(conn, socket_token, token, value) ==
    [conn EXCEPT !.conn_value =
        Append(@, [socket_token |-> socket_token, token |-> token, value |-> value])]

\* TcpConn::read_api_version: takes what the socket holds of the 4 version
\* bytes.  sock: the bytes of the peer that have arrived on the socket so far.
read_api_version(conn, sock, io_error) ==
    LET avail == Len(sock) - conn.rd
        n     == MinOf(avail, 4 - conn.rd)
    IN  IF io_error THEN [res |-> "Err", conn |-> conn]
        ELSE IF avail = 0 THEN [res |-> "WouldBlock", conn |-> conn]
        ELSE IF conn.rd + n = 4
             THEN [res |-> "Done",
                   conn |-> [conn EXCEPT !.rd = 4,
                                         !.api_version = read_u32(SubSeq(sock, 1, 4))]]
             ELSE [res |-> "NotDone", conn |-> [conn EXCEPT !.rd = @ + n]]

\* TcpConn::read_token_value: the 4-byte length, then that many bytes, split
\* at the separator into (token, value).
read_token_value(conn, sock, io_error) ==
    LET avail == Len(sock) - conn.rd
        have  == conn.rd + avail
        total == IF have >= 8 THEN 8 + read_u32(SubSeq(sock, 5, 8)) ELSE 0
        payload == SubSeq(sock, 9, total)
        sep   == SepIndex(payload, 1)
        none  == [res |-> "NotDone", token |-> <<>>, value |-> <<>>]
    IN  IF io_error THEN [none EXCEPT !.res = "Err"] @@ [conn |-> conn]
        ELSE IF avail = 0 THEN [none EXCEPT !.res = "WouldBlock"] @@ [conn |-> conn]
        ELSE IF have < 8 \/ have < total
             THEN none @@ [conn |-> [conn EXCEPT !.rd = have]]
        ELSE IF sep = 0
             THEN [none EXCEPT !.res = "Err"] @@ [conn |-> [conn EXCEPT !.rd = total]]
        ELSE [ res |-> "Done",
               token |-> SubSeq(payload, 1, sep - 1),
               value |-> SubSeq(payload, sep + 1, Len(payload)),
               conn |-> [conn EXCEPT !.rd = total] ]

\* bytes still to write
RECURSIVE QueuedBytes(_)
QueuedBytes(queue) ==
    IF queue = <<>> THEN 0 ELSE Len(Head(queue)) + QueuedBytes(Tail(queue))

\* the write queue after the socket took n more bytes
RECURSIVE Drain(_, _, _)
Drain(queue, off, n) ==
    IF queue = <<>> THEN [write_queue |-> <<>>, write_off |-> 0]
    ELSE IF n >= Len(Head(queue)) - off
         THEN Drain(Tail(queue), 0, n - (Len(Head(queue)) - off))
         ELSE [write_queue |-> queue, write_off |-> off + n]

\* TcpConn::flush_write_queue: writes until the socket would block (after n
\* bytes); done when the queue is empty.
flush_write_queue(conn, n, io_error) ==
    LET d == Drain(conn.write_queue, conn.write_off, n)
        c == [conn EXCEPT !.write_queue = d.write_queue, !.write_off = d.write_off]
    IN  IF io_error THEN [res |-> "Err", conn |-> conn]
        ELSE [res |-> IF d.write_queue = <<>> THEN "Done" ELSE "NotDone", conn |-> c]

\* byte counts a socket may take in one flush: nothing, a part, everything
AcceptedBytes(conn) ==
    LET left == QueuedBytes(conn.write_queue) - conn.write_off
    IN  { 0, MinOf(PartialWrite, left), left }


\* -------------------------------------------------------------------- state
VARIABLES
    pending_connections,   \* BTreeMap<Token, TcpConn>
    poll,                  \* sockets registered with the Poll: token -> interest
    reader_channel_index,  \* round-robin cursor
    reader_channels,       \* the commands given to the readers' channels, in order
    event_handler_channel, \* the events sent to the event handler
    receiver_channel,      \* queue of TcpNetworkCommand
    channel_ready,         \* readiness of the command channel not yet reported
    events,                \* events of the current poll still to handle
    pc,                    \* position of run(): "poll", "events", "recv", "exit"
    sockets,               \* token -> the bytes its peer has sent so far
    backlog,               \* connections waiting in the listener's queue
    next_token,            \* identifier of the next socket created
    commands_sent,         \* commands sent on the channel so far
    closed                 \* connections dropped by the engine: token -> cause

vars == << pending_connections, poll, reader_channel_index, reader_channels,
           event_handler_channel, receiver_channel, channel_ready, events, pc,
           sockets, backlog, next_token, commands_sent, closed >>

\* the part of the state the handlers of TcpNetwork work on
Engine ==
    [ pending_connections |-> pending_connections, poll |-> poll,
      reader_channel_index |-> reader_channel_index,
      reader_channels |-> reader_channels,
      event_handler_channel |-> event_handler_channel,
      sockets |-> sockets, closed |-> closed ]

Apply(S) ==
    /\ pending_connections' = S.pending_connections
    /\ poll' = S.poll
    /\ reader_channel_index' = S.reader_channel_index
    /\ reader_channels' = S.reader_channels
    /\ event_handler_channel' = S.event_handler_channel
    /\ sockets' = S.sockets
    /\ closed' = S.closed

\* a TcpConn that goes out of scope: the socket closes and leaves the Poll
DropConn(S, token, cause) ==
    [S EXCEPT !.poll = Remove(@, token),
              !.sockets = Remove(@, token),
              !.closed = Insert(@, token, cause)]

\* -------------------------------------------------------------- TcpNetwork
\* remove_pending with the connection left in the table
remove_pending_keep(S, token) == S

\* self.pending_connections.remove(&token): the handlers take the connection
\* out of the table first and put it back only when it is to be kept
remove_pending(S, token) ==
    [S EXCEPT !.pending_connections = Remove(@, token)]

\* write_handshake_info
\* write_handshake_info queueing the version and the payload as two buffers
write_handshake_info_split(conn) ==
    add_writable_data(add_writable_data(conn, write_u32(CURRENT_API_VERSION)),
                      SubSeq(send_data(current_token, current_value), 5,
                             Len(send_data(current_token, current_value))))

write_handshake_info(conn) ==
    add_writable_data(conn, send_data(current_token, current_value))

\* get_reader without the reset of the cursor at the end of the ring
get_reader_nowrap(S) ==
    [r |-> S.reader_channel_index,
     S |-> [S EXCEPT !.reader_channel_index = S.reader_channel_index + 1]]

\* get_reader: the reader chosen and the cursor after the call
get_reader(S) ==
    LET i == IF S.reader_channel_index >= ReadersCount THEN 0 ELSE S.reader_channel_index
    IN  [r |-> i, S |-> [S EXCEPT !.reader_channel_index = i + 1]]

\* close_connection emptying the table
close_connection_all(S, token) ==
    IF token \in DOMAIN S.pending_connections
    THEN DropConn([S EXCEPT !.pending_connections = [x \in {} |-> 0]], token, "error")
    ELSE S

\* close_connection
close_connection(S, token) ==
    IF token \in DOMAIN S.pending_connections
    THEN DropConn(remove_pending(S, token), token, "error")
    ELSE S

\* accept_conn; send_ok: the reader's channel took the command.  Every
\* send is recorded in reader_channels, with delivered = FALSE for one that
\* failed (the command and the connection in it are dropped).
\* accept_conn queueing the handshake for every connection
accept_conn_always_writes(S, token, send_ok) ==
    IF token \notin DOMAIN S.pending_connections THEN S
    ELSE
    LET conn0 == S.pending_connections[token]
        conn1 == write_handshake_info(conn0)
        S1 == [remove_pending(S, token) EXCEPT !.poll = Remove(@, token)]
        g  == get_reader(S1)
        cmd == [ reader |-> g.r, cmd |-> "HandleConnection", delivered |-> send_ok,
                 conn_value |-> IF conn1.conn_value = <<>> THEN <<>>
                                ELSE << conn1.conn_value[Len(conn1.conn_value)] >>,
                 conn |-> << [conn1 EXCEPT !.conn_value =
                                 IF @ = <<>> THEN <<>> ELSE SubSeq(@, 1, Len(@) - 1)] >>,
                 event |-> <<>>, tokens |-> <<>> ]
        S2 == [g.S EXCEPT !.reader_channels = Append(@, cmd)]
    IN  IF send_ok
        THEN [S2 EXCEPT !.sockets = Remove(@, token)]
        ELSE DropConn(S2, token, "error")

accept_conn(S, token, send_ok) ==
    IF token \notin DOMAIN S.pending_connections THEN S
    ELSE
    LET conn0 == S.pending_connections[token]
        conn1 == IF conn0.from_server THEN write_handshake_info(conn0) ELSE conn0
        S1 == [remove_pending(S, token) EXCEPT !.poll = Remove(@, token)]
        g  == get_reader(S1)
        cmd == [ reader |-> g.r, cmd |-> "HandleConnection", delivered |-> send_ok,
                 conn_value |-> IF conn1.conn_value = <<>> THEN <<>>
                                ELSE << conn1.conn_value[Len(conn1.conn_value)] >>,
                 conn |-> << [conn1 EXCEPT !.conn_value =
                                 IF @ = <<>> THEN <<>> ELSE SubSeq(@, 1, Len(@) - 1)] >>,
                 event |-> <<>>, tokens |-> <<>> ]
        S2 == [g.S EXCEPT !.reader_channels = Append(@, cmd)]
    IN  IF send_ok
        THEN [S2 EXCEPT !.sockets = Remove(@, token)]
        ELSE DropConn(S2, token, "error")

\* emit
emit(S, ev, tokens) ==
    LET g == get_reader(S)
        cmd == [ reader |-> g.r, cmd |-> "WriteDataWithPath", delivered |-> TRUE,
                 conn_value |-> <<>>,
                 conn |-> <<>>, event |-> << ev >>, tokens |-> tokens ]
    IN  [g.S EXCEPT !.reader_channels = Append(@, cmd)]

\* add_pending_conn; register_ok: poll.register succeeded
\* add_pending_conn treating every socket as one handed in by a client
add_pending_conn_eager(S, socket, from_client, register_ok) ==
    LET conn0 == [TcpConn_new(socket) EXCEPT !.from_server = ~from_client]
        conn1 == write_handshake_info(conn0)
    IN  IF register_ok
        THEN [S EXCEPT !.poll = Insert(@, socket, "rw"),
                       !.pending_connections = Insert(@, socket, conn1),
                       !.sockets = Insert(@, socket, <<>>)]
        ELSE [S EXCEPT !.closed = Insert(@, socket, "error")]

add_pending_conn(S, socket, from_client, register_ok) ==
    LET conn0 == [TcpConn_new(socket) EXCEPT !.from_server = ~from_client]
        ready_state == IF from_client THEN "rw" ELSE "r"
        conn1 == IF from_client THEN write_handshake_info(conn0) ELSE conn0
    IN  IF register_ok
        THEN [S EXCEPT !.poll = Insert(@, socket, ready_state),
                       !.pending_connections = Insert(@, socket, conn1),
                       !.sockets = Insert(@, socket, <<>>)]
        ELSE [S EXCEPT !.closed = Insert(@, socket, "error")]


\* the event with data and from exchanged
PendingConnectionEvent_swapped(token, conn_token, conn_value) ==
    [ name |-> "EVENT_ON_PENDING_CONNECTION", data |-> conn_token,
      from |-> conn_value, socket_token |-> token ]

\* the on-pending-connection event of readable; socket_token is not a field
\* of Event: it records which connection the event was sent for
PendingConnectionEvent(token, conn_token, conn_value) ==
    [ name |-> "EVENT_ON_PENDING_CONNECTION", data |-> conn_value,
      from |-> conn_token, socket_token |-> token ]

\* readable, from the identity read on (conn has been taken out of the table)
\* the identity read announcing every connection to the event handler
readable_token_value_announce(S, token, conn, tv_error, send_ok) ==
    LET t == read_token_value(conn, S.sockets[token], tv_error)
        c == add_conn_value(t.conn, token, t.token, t.value)
        S1 == [S EXCEPT !.poll = Remove(@, token)]
    IN  IF t.res = "Err" THEN DropConn(S, token, "error")
        ELSE IF t.res = "WouldBlock" THEN DropConn(S, token, "would_block")
        ELSE IF t.res = "NotDone" THEN DropConn(S, token, "not_done")
        ELSE [S1 EXCEPT !.event_handler_channel =
                            Append(@, PendingConnectionEvent(token, t.token, t.value)),
                        !.pending_connections = Insert(@, token, c)]

readable_token_value(S, token, conn, tv_error, send_ok) ==
    LET t == read_token_value(conn, S.sockets[token], tv_error)
        c == add_conn_value(t.conn, token, t.token, t.value)
        S1 == [S EXCEPT !.poll = Remove(@, token)]
    IN  IF t.res = "Err" THEN DropConn(S, token, "error")
        ELSE IF t.res = "WouldBlock" THEN DropConn(S, token, "would_block")
        ELSE IF t.res = "NotDone" THEN DropConn(S, token, "not_done")
        ELSE IF conn.from_server
             THEN [S1 EXCEPT !.event_handler_channel =
                                 Append(@, PendingConnectionEvent(token, t.token, t.value)),
                             !.pending_connections = Insert(@, token, c)]
             ELSE accept_conn([S1 EXCEPT !.pending_connections = Insert(@, token, c)],
                              token, send_ok)

\* readable; ver_error, tv_error: the socket read fails with a hard error
readable(S, token, ver_error, tv_error, send_ok) ==
    IF token \notin DOMAIN S.pending_connections THEN S
    ELSE
    LET conn == S.pending_connections[token]
        S0 == remove_pending(S, token)
        v  == read_api_version(conn, S.sockets[token], ver_error)
    IN  IF conn.api_version <= 0
        THEN IF v.res = "NotDone"
                THEN [S0 EXCEPT !.pending_connections = Insert(@, token, v.conn)]
             ELSE IF v.res = "WouldBlock"
                THEN [S0 EXCEPT !.pending_connections = Insert(@, token, v.conn)]
             ELSE IF v.res = "Err"
                THEN DropConn(S0, token, "error")
             ELSE readable_token_value(S0, token, v.conn, tv_error, send_ok)
        ELSE readable_token_value(S0, token, conn, tv_error, send_ok)

\* writable reregistering for read-only readiness after every flush
writable_always_reregisters(S, token, n, io_error, reregister_ok) ==
    IF token \notin DOMAIN S.pending_connections THEN S
    ELSE
    LET conn == S.pending_connections[token]
        S0 == remove_pending(S, token)
        f  == flush_write_queue(conn, n, io_error)
    IN  IF f.res = "Err" THEN DropConn(S0, token, "error")
        ELSE IF reregister_ok
             THEN [S0 EXCEPT !.poll = Insert(@, token, "r"),
                             !.pending_connections = Insert(@, token, f.conn)]
             ELSE DropConn(S0, token, "error")

\* writable; n: bytes the socket takes; reregister_ok: poll.reregister succeeded
writable(S, token, n, io_error, reregister_ok) ==
    IF token \notin DOMAIN S.pending_connections THEN S
    ELSE
    LET conn == S.pending_connections[token]
        S0 == remove_pending(S, token)
        f  == flush_write_queue(conn, n, io_error)
    IN  IF f.res = "Err" THEN DropConn(S0, token, "error")
        ELSE IF f.res = "Done"
             THEN IF reregister_ok
                  THEN [S0 EXCEPT !.poll = Insert(@, token, "r"),
                                  !.pending_connections = Insert(@, token, f.conn)]
                  ELSE DropConn(S0, token, "error")
        ELSE [S0 EXCEPT !.pending_connections = Insert(@, token, f.conn)]

\* conn_token_for without the comparison of the tokens
conn_token_for_any(S, token) ==
    LET found == { t \in DOMAIN S.pending_connections :
                     Len(S.pending_connections[t].conn_value) > 0 }
    IN  IF found = {} THEN 0 ELSE Min(found)

\* conn_token_for taking the last connection of the table with the token
conn_token_for_last(S, token) ==
    LET found == { t \in DOMAIN S.pending_connections :
                     /\ Len(S.pending_connections[t].conn_value) > 0
                     /\ S.pending_connections[t].conn_value[1].token = token }
    IN  IF found = {} THEN 0 ELSE CHOOSE t \in found : \A u \in found : u <= t

\* conn_token_for taking the first connection of the table
conn_token_for_first(S, token) ==
    IF DOMAIN S.pending_connections = {} THEN 0 ELSE Min(DOMAIN S.pending_connections)

\* the connection AcceptPendingConnection picks: the first one, in the order
\* of the table, whose learned token is the command's; Token(0) when none
conn_token_for(S, token) ==
    LET found == { t \in DOMAIN S.pending_connections :
                     /\ Len(S.pending_connections[t].conn_value) > 0
                     /\ S.pending_connections[t].conn_value[1].token = token }
    IN  IF found = {} THEN 0 ELSE Min(found)

\* notify
notify(S, command, send_ok, register_ok) ==
    CASE command.cmd = "HandleClientConnection" ->
            IF command.socket = <<>> THEN S
            ELSE add_pending_conn(S, command.socket[Len(command.socket)], TRUE,
                                  register_ok)
      [] command.cmd = "AcceptPendingConnection" ->
            LET conn_token == conn_token_for(S, command.token[1])
            IN  IF conn_token # 0 THEN accept_conn(S, conn_token, send_ok) ELSE S
      [] command.cmd = "EmitEvent" ->
            IF command.event = <<>> THEN S
            ELSE emit(S, command.event[Len(command.event)], command.token)

\* acceptable: one add_pending_conn per socket the listener hands out, until
\* accept fails; accepted[i]: poll.register of the i-th socket succeeded
RECURSIVE acceptable(_, _, _)
acceptable(S, first_token, accepted) ==
    IF accepted = <<>> THEN S
    ELSE acceptable(add_pending_conn(S, first_token, FALSE, Head(accepted)),
                    first_token + 1, Tail(accepted))


\* ---------------------------------------------------------------- run loop
Empty == [x \in {} |-> 0]

Init ==
    /\ pending_connections = Empty
    /\ poll = Empty
    /\ reader_channel_index = 0
    /\ reader_channels = <<>>
    /\ event_handler_channel = <<>>
    /\ receiver_channel = <<>>
    /\ channel_ready = FALSE
    /\ events = <<>>
    /\ pc = "poll"
    /\ sockets = Empty
    /\ backlog = 0
    /\ next_token = FirstConnToken
    /\ commands_sent = 0
    /\ closed = Empty

\* The events of a poll are kept as the tokens of their sources, in the order
\* run() goes through them; the readiness kind of an event is read by the
\* handling of that event alone and is drawn when the event is handled.

\* the readiness kinds an event may carry, by the registration of its source
EventKinds(token) ==
    IF token = TCP_SERVER_TOKEN THEN { {"r"}, {"e"} }
    ELSE IF token = RECEIVER_CHANNEL_TOKEN THEN { {"r"} }
    ELSE IF token \in DOMAIN poll /\ poll[token] = "rw"
         THEN { {"r"}, {"w"}, {"r", "w"}, {"e"}, {"h"} }
    ELSE { {"r"}, {"e"}, {"h"} }

\* the sources a poll may report now
PollSources ==
    { TCP_SERVER_TOKEN }
    \cup { t \in { RECEIVER_CHANNEL_TOKEN } : channel_ready }
    \cup DOMAIN poll

\* one poll's events when the readiness of the command channel is not reported
Batches_without_channel ==
    UNION { { b \in [1..n -> PollSources \ { RECEIVER_CHANNEL_TOKEN }] :
                \A i, j \in 1..n : i # j => b[i] # b[j] }
            : n \in 1..MaxBatch }

\* one poll's events: at most one per source; the command channel is among
\* them when it is ready
Batches ==
    UNION { { b \in [1..n -> PollSources] :
                /\ \A i, j \in 1..n : i # j => b[i] # b[j]
                /\ channel_ready => \E i \in 1..n : b[i] = RECEIVER_CHANNEL_TOKEN }
            : n \in 1..MaxBatch }

\* which branch of the event loop handles an event (run, the body of the for)
handler_for(token, kind) ==
    IF token = RECEIVER_CHANNEL_TOKEN THEN "recv"
    ELSE IF "e" \in kind \/ "h" \in kind
         THEN IF token = TCP_SERVER_TOKEN THEN "exit" ELSE "close_connection"
    ELSE IF "r" \in kind
         THEN IF token = TCP_SERVER_TOKEN THEN "acceptable" ELSE "readable"
    ELSE IF "w" \in kind THEN "writable"
    ELSE "none"

NextEvent ==
    /\ events' = Tail(events)
    /\ pc' = IF Tail(events) = <<>> THEN "poll" ELSE "events"

Handling(h) ==
    /\ pc = "events"
    /\ events # <<>>
    /\ \E kind \in EventKinds(Head(events)) : handler_for(Head(events), kind) = h

\* self.poll.poll(&mut events, None)
Poll ==
    /\ pc = "poll"
    /\ \E b \in Batches : events' = b
    /\ pc' = "events"
    /\ channel_ready' = FALSE
    /\ UNCHANGED << pending_connections, poll, reader_channel_index, reader_channels,
                    event_handler_channel, receiver_channel, sockets, backlog,
                    next_token, commands_sent, closed >>

\* the event of the command channel: start of the try_recv loop
EventChannel ==
    /\ Handling("recv")
    /\ events' = Tail(events)
    /\ pc' = "recv"
    /\ UNCHANGED << pending_connections, poll, reader_channel_index, reader_channels,
                    event_handler_channel, receiver_channel, channel_ready, sockets,
                    backlog, next_token, commands_sent, closed >>

\* try_recv returns a command: notify
TryRecvOk ==
    /\ pc = "recv"
    /\ receiver_channel # <<>>
    /\ \E send_ok, register_ok \in BOOLEAN :
          Apply(notify(Engine, Head(receiver_channel), send_ok, register_ok))
    /\ receiver_channel' = Tail(receiver_channel)
    /\ UNCHANGED << channel_ready, events, pc, backlog, next_token, commands_sent >>

\* try_recv fails: the queue is empty, back to the events
TryRecvErr ==
    /\ pc = "recv"
    /\ receiver_channel = <<>>
    /\ pc' = IF events = <<>> THEN "poll" ELSE "events"
    /\ UNCHANGED << pending_connections, poll, reader_channel_index, reader_channels,
                    event_handler_channel, receiver_channel, channel_ready, events,
                    sockets, backlog, next_token, commands_sent, closed >>

\* error or hang-up on the listener: process::exit(1)
EventServerError ==
    /\ Handling("exit")
    /\ pc' = "exit"
    /\ events' = <<>>
    /\ UNCHANGED << pending_connections, poll, reader_channel_index, reader_channels,
                    event_handler_channel, receiver_channel, channel_ready, sockets,
                    backlog, next_token, commands_sent, closed >>

\* error or hang-up on a connection
EventClose ==
    /\ Handling("close_connection")
    /\ Apply(close_connection(Engine, Head(events)))
    /\ NextEvent
    /\ UNCHANGED << receiver_channel, channel_ready, backlog, next_token, commands_sent >>

\* the listener is readable
EventAcceptable ==
    /\ Handling("acceptable")
    /\ \E n \in 0..backlog :
         \E accepted \in [1..n -> BOOLEAN] :
            /\ Apply(acceptable(Engine, next_token, accepted))
            /\ backlog' = backlog - n
            /\ next_token' = next_token + n
    /\ NextEvent
    /\ UNCHANGED << receiver_channel, channel_ready, commands_sent >>

\* a connection is readable
EventReadable ==
    /\ Handling("readable")
    /\ \E ver_error, tv_error, send_ok \in BOOLEAN :
          Apply(readable(Engine, Head(events), ver_error, tv_error, send_ok))
    /\ NextEvent
    /\ UNCHANGED << receiver_channel, channel_ready, backlog, next_token, commands_sent >>

\* a connection is writable
EventWritable ==
    /\ Handling("writable")
    /\ LET token == Head(events)
       IN  \E io_error, reregister_ok \in BOOLEAN :
            \E n \in IF token \in DOMAIN pending_connections
                     THEN AcceptedBytes(pending_connections[token]) ELSE {0} :
               Apply(writable(Engine, token, n, io_error, reregister_ok))
    /\ NextEvent
    /\ UNCHANGED << receiver_channel, channel_ready, backlog, next_token, commands_sent >>

\* ------------------------------------------------------------- environment
\* A handler reads the socket and the listener queue of its own event only, so
\* bytes or connections arriving while a batch of events is handled lead to
\* the states they lead to when they arrive just before or just after the
\* poll: the peers act while the engine waits in poll.  Commands are read by
\* the try_recv loop and may arrive while it runs.
\* sockets created so far or about to be
SocketsCreated == (next_token - FirstConnToken) + backlog

\* a peer connects to the listener
PeerConnectB(max_conns) ==
    /\ pc = "poll"
    /\ SocketsCreated < max_conns
    /\ backlog' = backlog + 1
    /\ UNCHANGED << pending_connections, poll, reader_channel_index, reader_channels,
                    event_handler_channel, receiver_channel, channel_ready, events, pc,
                    sockets, next_token, commands_sent, closed >>

\* more bytes of a peer's handshake arrive
PeerSend ==
    /\ pc = "poll"
    /\ \E t \in DOMAIN sockets, stream \in PeerStreams :
         \E n \in CutPoints(stream) :
            /\ n > Len(sockets[t])
            /\ SubSeq(stream, 1, Len(sockets[t])) = sockets[t]
            /\ sockets' = [sockets EXCEPT ![t] = SubSeq(stream, 1, n)]
    /\ UNCHANGED << pending_connections, poll, reader_channel_index, reader_channels,
                    event_handler_channel, receiver_channel, channel_ready, events, pc,
                    backlog, next_token, commands_sent, closed >>

PeerConnect == PeerConnectB(MaxConns)

\* the commands another thread may send now
Commands(max_conns) ==
    { [cmd |-> "HandleClientConnection", socket |-> << s >>, token |-> <<>>, event |-> <<>>] :
         s \in { t \in { next_token } : SocketsCreated < max_conns } }
    \cup { [cmd |-> "AcceptPendingConnection", socket |-> <<>>, token |-> << t >>, event |-> <<>>] :
             t \in CommandTokens }
    \cup { [cmd |-> "EmitEvent", socket |-> <<>>, token |-> << <<97>> >>, event |-> << "ev" >>] }

\* another thread sends a command on the channel
SendCommandB(max_conns, max_cmds) ==
    /\ pc \in {"poll", "recv"}
    /\ commands_sent < max_cmds
    /\ \E c \in Commands(max_conns) :
          /\ receiver_channel' = Append(receiver_channel, c)
          /\ next_token' = next_token + Len(c.socket)
    /\ channel_ready' = TRUE
    /\ commands_sent' = commands_sent + 1
    /\ UNCHANGED << pending_connections, poll, reader_channel_index, reader_channels,
                    event_handler_channel, events, pc, sockets, backlog, closed >>

SendCommand == SendCommandB(MaxConns, MaxCmds)

Next ==
    \/ Poll
    \/ EventChannel
    \/ TryRecvOk
    \/ TryRecvErr
    \/ EventServerError
    \/ EventClose
    \/ EventAcceptable
    \/ EventReadable
    \/ EventWritable
    \/ PeerConnect
    \/ PeerSend
    \/ SendCommand

Spec == Init /\ [][Next]_vars

\* The same engine with one connection and one more command: long enough a
\* run of dispatches for the round-robin cursor to wrap.
RingPeerConnect == PeerConnectB(RingConns)
RingSendCommand == SendCommandB(RingConns, RingCmds)

NextRing ==
    \/ Poll
    \/ EventChannel
    \/ TryRecvOk
    \/ TryRecvErr
    \/ EventServerError
    \/ EventClose
    \/ EventAcceptable
    \/ EventReadable
    \/ EventWritable
    \/ RingPeerConnect
    \/ PeerSend
    \/ RingSendCommand

SpecRing == Init /\ [][NextRing]_vars


\* -------------------------------------------------------------- properties
\* the HandleConnection commands given to the readers, and the connections
\* that reached a reader
HandleEntries == { i \in 1..Len(reader_channels) : reader_channels[i].cmd = "HandleConnection" }
Handed ==
    { reader_channels[i].conn[1].socket_token :
        i \in { j \in HandleEntries : reader_channels[j].delivered } }

\* the step takes command c from the channel and passes it to notify
Notifies(c) ==
    /\ pc = "recv"
    /\ receiver_channel # <<>>
    /\ Head(receiver_channel) = c
    /\ receiver_channel' = Tail(receiver_channel)

\* the step handles the event at the head of the batch, an event of source t
HandlesEventOf(t) ==
    /\ pc = "events"
    /\ events # <<>>
    /\ Head(events) = t
    /\ events' = Tail(events)

\* C1: a connection accepted from the listener is given to a reader only in
\* a step that processes an AcceptPendingConnection command whose token is
\* the token read from that connection; the step that reads its identity
\* (and sends on-pending-connection) gives nothing to a reader and leaves the
\* connection in the pending table.
C1_InboundNeedsAccept ==
    [][ /\ \A i \in (Len(reader_channels) + 1)..Len(reader_channels') :
             LET e == reader_channels'[i]
             IN  (e.cmd = "HandleConnection" /\ e.conn[1].from_server) =>
                    \E c \in { Head(receiver_channel) : x \in { y \in {TRUE} : receiver_channel # <<>> } } :
                       /\ Notifies(c)
                       /\ c.cmd = "AcceptPendingConnection"
                       /\ e.conn_value # <<>>
                       /\ c.token[1] = e.conn_value[1].token
        /\ \A i \in (Len(event_handler_channel) + 1)..Len(event_handler_channel') :
             /\ reader_channels' = reader_channels
             /\ event_handler_channel'[i].socket_token \in DOMAIN pending_connections'
      ]_vars

\* C1 witness: a connection from the listener has reached a reader
C1_Witness ==
    \E i \in HandleEntries :
        reader_channels[i].delivered /\ reader_channels[i].conn[1].from_server

\* C2: on-pending-connection is sent at most once for a connection, in a step
\* after which the connection has its version and the whole length-prefixed
\* payload of the peer read, and the event carries the value of that payload
\* as data and its token as from.
C2_PendingEventOnce ==
    [][ /\ Len(event_handler_channel') >= Len(event_handler_channel)
        /\ SubSeq(event_handler_channel', 1, Len(event_handler_channel)) = event_handler_channel
        /\ Len(event_handler_channel') <= Len(event_handler_channel) + 1
        /\ \A i \in (Len(event_handler_channel) + 1)..Len(event_handler_channel') :
             LET ev == event_handler_channel'[i]
                 t  == ev.socket_token
             IN  /\ \A j \in 1..Len(event_handler_channel) :
                        event_handler_channel[j].socket_token # t
                 /\ HandlesEventOf(t)
                 /\ t \in DOMAIN pending_connections'
                 /\ LET c == pending_connections'[t]
                        sock == sockets'[t]
                    IN  /\ c.from_server
                        /\ c.api_version = read_u32(SubSeq(sock, 1, 4))
                        /\ c.api_version > 0
                        /\ Len(sock) >= 8
                        /\ c.rd = 8 + read_u32(SubSeq(sock, 5, 8))
                        /\ c.rd <= Len(sock)
                        /\ SubSeq(sock, 9, c.rd) = ev.from \o << TOKEN_VALUE_SEP >> \o ev.data
                        /\ ev.name = "EVENT_ON_PENDING_CONNECTION"
      ]_vars

\* C2 witness: on-pending-connection was sent for a connection that has
\* since been accepted and given to a reader
C2_Witness ==
    \E i \in 1..Len(event_handler_channel) :
        event_handler_channel[i].socket_token \in Handed

\* C3: a connection is given to a reader at most once, and one that reached
\* a reader is in neither the pending table nor the Poll: readable, writable,
\* close_connection and accept_conn for its identifier change nothing, and
\* no AcceptPendingConnection command selects it.
C3_HandedOnce ==
    /\ \A i, j \in HandleEntries :
          reader_channels[i].conn[1].socket_token = reader_channels[j].conn[1].socket_token
             => i = j
    /\ \A t \in Handed :
          /\ t \notin DOMAIN pending_connections
          /\ t \notin DOMAIN poll
          /\ \A a, b, c \in BOOLEAN : readable(Engine, t, a, b, c) = Engine
          /\ \A a, b \in BOOLEAN : writable(Engine, t, 0, a, b) = Engine
          /\ close_connection(Engine, t) = Engine
          /\ \A a \in BOOLEAN : accept_conn(Engine, t, a) = Engine
          /\ \A tok \in CommandTokens : conn_token_for(Engine, tok) # t

\* C3 witness: a connection reached a reader, and a command carrying its
\* token is about to be processed
C3_Witness ==
    /\ pc = "recv"
    /\ receiver_channel # <<>>
    /\ Head(receiver_channel).cmd = "AcceptPendingConnection"
    /\ \E i \in HandleEntries :
          /\ reader_channels[i].delivered
          /\ reader_channels[i].conn_value # <<>>
          /\ reader_channels[i].conn_value[1].token = Head(receiver_channel).token[1]


\* the step changes the engine's state the way the handler result R says
StepIs(R) ==
    /\ pending_connections' = R.pending_connections
    /\ poll' = R.poll
    /\ reader_channel_index' = R.reader_channel_index
    /\ reader_channels' = R.reader_channels
    /\ event_handler_channel' = R.event_handler_channel
    /\ sockets' = R.sockets
    /\ closed' = R.closed

\* what the reads of readable(t) report when no read fails hard: the version
\* is known or just read, and then the outcome of the identity read
VersionKnownAfterRead(t) ==
    LET conn == pending_connections[t]
    IN  \/ conn.api_version > 0
        \/ read_api_version(conn, sockets[t], FALSE).res = "Done"
IdentityRead(t) ==
    LET conn == pending_connections[t]
        v    == read_api_version(conn, sockets[t], FALSE)
    IN  read_token_value(IF conn.api_version <= 0 THEN v.conn ELSE conn,
                         sockets[t], FALSE).res

\* C4: a connection the engine has had is in the pending table exactly when
\* it has neither reached a reader nor been closed on an error path.
C4_TableIffLive ==
    \A t \in DOMAIN pending_connections \cup Handed \cup DOMAIN closed :
        (t \in DOMAIN pending_connections)
           <=> /\ t \notin Handed
               /\ ~(t \in DOMAIN closed /\ closed[t] \in {"error", "would_block"})

\* C5: the readers chosen by the dispatching calls, accept_conn and emit in
\* any interleaving, are 0, 1, ..., ReadersCount - 1, 0, 1, ...: the i-th
\* call chooses reader (i - 1) mod ReadersCount and leaves the cursor one
\* past it.
C5_RoundRobin ==
    /\ \A i \in 1..Len(reader_channels) :
          /\ reader_channels[i].reader = (i - 1) % ReadersCount
          /\ reader_channels[i].reader \in 0..(ReadersCount - 1)
    /\ reader_channel_index =
          IF reader_channels = <<>> THEN 0
          ELSE ((Len(reader_channels) - 1) % ReadersCount) + 1

\* C5 witness: three dispatching calls of both kinds, the third one back at
\* the first reader
C5_Witness ==
    /\ Len(reader_channels) >= 3
    /\ reader_channels[3].reader = 0
    /\ \E i, j \in 1..3 :
          /\ reader_channels[i].cmd = "HandleConnection"
          /\ reader_channels[j].cmd = "WriteDataWithPath"

\* no pending connection has learned the token tok
NoMatch(tok) ==
    \A t \in DOMAIN pending_connections :
        \/ pending_connections[t].conn_value = <<>>
        \/ pending_connections[t].conn_value[1].token # tok

\* C6: processing an AcceptPendingConnection command whose token is the
\* learned token of no pending connection changes neither the table, the
\* Poll, the cursor nor what was given to the readers.
C6_NoMatchNoOp ==
    [][ \A tok \in CommandTokens :
          ( /\ pc = "recv"
            /\ receiver_channel # <<>>
            /\ Head(receiver_channel).cmd = "AcceptPendingConnection"
            /\ Head(receiver_channel).token[1] = tok
            /\ receiver_channel' = Tail(receiver_channel)
            /\ NoMatch(tok) )
          => UNCHANGED << pending_connections, poll, reader_channel_index,
                          reader_channels, event_handler_channel, sockets, closed >>
      ]_vars

\* C6 witness: such a command is about to be processed while the table holds
\* a connection without identity and one that learned another token
C6_Witness ==
    /\ pc = "recv"
    /\ receiver_channel # <<>>
    /\ Head(receiver_channel).cmd = "AcceptPendingConnection"
    /\ NoMatch(Head(receiver_channel).token[1])
    /\ \E t, u \in DOMAIN pending_connections :
          /\ pending_connections[t].conn_value = <<>>
          /\ pending_connections[u].conn_value # <<>>

\* C7: a readable(t) in which no read fails, the version is known or just
\* read and the identity read reports "not done" leaves the connection in
\* the pending table and registered.
C7_PartialIdentityStays ==
    [][ \A t \in DOMAIN pending_connections :
          ( /\ HandlesEventOf(t)
            /\ VersionKnownAfterRead(t)
            /\ IdentityRead(t) = "NotDone"
            /\ \E ok \in BOOLEAN : StepIs(readable(Engine, t, FALSE, FALSE, ok)) )
          => /\ t \in DOMAIN pending_connections'
             /\ t \in DOMAIN poll'
      ]_vars

\* C8: a pending connection whose peer has sent fewer than 4 bytes stays in
\* the table, unchanged and registered, over every step that does not handle
\* an event of that connection.
C8_ShortPeerStays ==
    [][ \A t \in DOMAIN pending_connections :
          ( /\ Len(sockets[t]) < 4
            /\ ~(pc = "events" /\ events # <<>> /\ Head(events) = t) )
          => /\ t \in DOMAIN pending_connections'
             /\ pending_connections'[t] = pending_connections[t]
             /\ t \in DOMAIN poll'
             /\ poll'[t] = poll[t]
      ]_vars

\* C8 witness: a connection that read 2 bytes is pending while another
\* connection has reached a reader
C8_Witness ==
    /\ Handed # {}
    /\ \E t \in DOMAIN pending_connections :
          /\ Len(sockets[t]) = 2
          /\ pending_connections[t].rd = 2

\* C9: a read or write that would block leaves the connection pending:
\* after readable(t) whose version read or identity read would block, and
\* after writable(t) whose socket takes no byte, the connection is in the
\* table with its write queue and its registration as before and no
\* handshake progress lost.
C9_WouldBlockKeeps ==
    [][ \A t \in DOMAIN pending_connections :
          LET conn == pending_connections[t]
              read_blocks ==
                 /\ \/ (conn.api_version <= 0
                         /\ read_api_version(conn, sockets[t], FALSE).res = "WouldBlock")
                    \/ (VersionKnownAfterRead(t) /\ IdentityRead(t) = "WouldBlock")
                 /\ \E ok \in BOOLEAN : StepIs(readable(Engine, t, FALSE, FALSE, ok))
              write_blocks ==
                 /\ conn.write_queue # <<>>
                 /\ \E ok \in BOOLEAN : StepIs(writable(Engine, t, 0, FALSE, ok))
          IN  (HandlesEventOf(t) /\ (read_blocks \/ write_blocks))
              => /\ t \in DOMAIN pending_connections'
                 /\ pending_connections'[t].write_queue = conn.write_queue
                 /\ pending_connections'[t].write_off = conn.write_off
                 /\ pending_connections'[t].rd >= conn.rd
                 /\ t \in DOMAIN poll'
                 /\ poll'[t] = poll[t]
      ]_vars

\* C10: a step that closes a connection on an error path takes that
\* connection alone out of the table and the Poll: every other pending
\* connection keeps its envelope and its registration, run() does not exit,
\* and a closed connection never comes back to the table or to a reader.
C10_FailureIsLocal ==
    [][ /\ \A t \in DOMAIN closed' :
             (t \notin DOMAIN closed /\ closed'[t] = "error") =>
                /\ t \notin DOMAIN pending_connections'
                /\ t \notin DOMAIN poll'
                /\ pc' # "exit"
                /\ \A u \in DOMAIN pending_connections \ {t} :
                      /\ u \in DOMAIN pending_connections'
                      /\ pending_connections'[u] = pending_connections[u]
                      /\ u \in DOMAIN poll <=> u \in DOMAIN poll'
                      /\ u \in DOMAIN poll => poll'[u] = poll[u]
        /\ \A t \in DOMAIN closed :
             /\ t \in DOMAIN closed'
             /\ t \notin DOMAIN pending_connections'
             /\ \A i \in (Len(reader_channels) + 1)..Len(reader_channels') :
                   reader_channels'[i].cmd = "HandleConnection"
                      => reader_channels'[i].conn[1].socket_token # t
      ]_vars

\* C10 witness: a connection was closed on an error path while another one,
\* which has read part of its peer's handshake or has its own queued, is
\* pending
C10_Witness ==
    /\ \E t \in DOMAIN closed : closed[t] = "error"
    /\ \E u \in DOMAIN pending_connections :
          /\ pending_connections[u].rd > 0
          /\ pending_connections[u].write_queue # <<>>


\* ------------------------------------------------- writable on longer queues
\* writable(token) applied to a pending connection whose write queue holds
\* one or two buffers of 10 and 20 bytes (run() itself queues one handshake
\* buffer per connection), for every byte count the socket may take.
Buf(len, base) == [i \in 1..len |-> base + i]
FlushQueues ==
    { << Buf(10, 0), Buf(20, 10) >>, << Buf(20, 40), Buf(10, 60) >>,
      << Buf(10, 80) >>, << Buf(20, 100), Buf(20, 120) >> }

InitFlush ==
    /\ \E q \in FlushQueues :
          pending_connections =
             (FirstConnToken :> [TcpConn_new(FirstConnToken) EXCEPT !.write_queue = q])
    /\ poll = (FirstConnToken :> "rw")
    /\ reader_channel_index = 0
    /\ reader_channels = <<>>
    /\ event_handler_channel = <<>>
    /\ receiver_channel = <<>>
    /\ channel_ready = FALSE
    /\ events = <<>>
    /\ pc = "poll"
    /\ sockets = (FirstConnToken :> <<>>)
    /\ backlog = 0
    /\ next_token = FirstConnToken + 1
    /\ commands_sent = 0
    /\ closed = Empty

FlushWritable ==
    /\ \E t \in DOMAIN pending_connections :
         \E n \in 0..(QueuedBytes(pending_connections[t].write_queue)
                        - pending_connections[t].write_off) :
            \E io_error, reregister_ok \in BOOLEAN :
               Apply(writable(Engine, t, n, io_error, reregister_ok))
    /\ UNCHANGED << receiver_channel, channel_ready, events, pc, backlog,
                    next_token, commands_sent >>

NextFlush == FlushWritable

SpecFlush == InitFlush /\ [][NextFlush]_vars

\* the bytes of a connection's write queue not written yet, in order
RECURSIVE Flatten(_)
Flatten(queue) == IF queue = <<>> THEN <<>> ELSE Head(queue) \o Flatten(Tail(queue))
RemainingBytes(conn) ==
    SubSeq(Flatten(conn.write_queue), conn.write_off + 1,
           Len(Flatten(conn.write_queue)))

AcceptableStep ==
    /\ HandlesEventOf(TCP_SERVER_TOKEN)
    /\ pc' # "exit"

\* the connections a step adds to the pending table
NewPending == DOMAIN pending_connections' \ DOMAIN pending_connections

\* C12 as stated: a call of acceptable in which the listener hands out k
\* sockets adds exactly k connections to the pending table.
C12_Original ==
    [][ AcceptableStep => Cardinality(NewPending) = backlog - backlog' ]_vars

\* C12 (amended): a call of acceptable in which the listener hands out k
\* sockets before it fails adds one connection to the pending table for
\* each of the k sockets whose registration succeeded and drops the others;
\* each added connection is from the server side, has no version and no
\* identity read, an empty write queue and a read-only registration; the
\* connections already pending are untouched and the listener is not handled
\* again in this batch of events.
C12_AcceptAddsInbound ==
    [][ AcceptableStep =>
          LET k     == backlog - backlog'
              fresh == next_token..(next_token + k - 1)
          IN  /\ k >= 0
              /\ next_token' = next_token + k
              /\ NewPending = { t \in fresh : t \notin DOMAIN closed' }
              /\ \A t \in fresh \ NewPending :
                    closed'[t] = "error" /\ t \notin DOMAIN poll'
              /\ \A t \in NewPending :
                    /\ pending_connections'[t].socket_token = t
                    /\ pending_connections'[t].from_server
                    /\ pending_connections'[t].api_version = 0
                    /\ pending_connections'[t].conn_value = <<>>
                    /\ pending_connections'[t].write_queue = <<>>
                    /\ t \in DOMAIN poll' /\ poll'[t] = "r"
              /\ \A t \in DOMAIN pending_connections :
                    /\ t \in DOMAIN pending_connections'
                    /\ pending_connections'[t] = pending_connections[t]
              /\ \A i \in 1..Len(events') : events'[i] # TCP_SERVER_TOKEN
      ]_vars

\* C12 witness: two connections accepted from the listener are pending, both
\* untouched since, and the listener has nothing more to hand out
C12_Witness ==
    /\ backlog = 0
    /\ Cardinality({ t \in DOMAIN pending_connections :
                       /\ pending_connections[t].from_server
                       /\ pending_connections[t].api_version = 0
                       /\ pending_connections[t].write_queue = <<>>
                       /\ poll[t] = "r" }) = 2
    /\ closed = Empty
    /\ commands_sent = 0
    /\ \A t \in DOMAIN sockets : sockets[t] = <<>>


\* the step passes a HandleClientConnection command with a socket to notify
AdoptStep(t) ==
    /\ receiver_channel # <<>>
    /\ Head(receiver_channel).cmd = "HandleClientConnection"
    /\ Head(receiver_channel).socket = << t >>
    /\ Notifies(Head(receiver_channel))

\* the handshake of this node, ("n", 7): version 1, length 3, "n|7"
LocalHandshake == << 0, 0, 0, 1,  0, 0, 0, 3,  110, 124, 55 >>

\* C13 as stated: processing a HandleClientConnection command that carries a
\* socket adds exactly one connection to the pending table.
C13_Original ==
    [][ \A t \in FirstConnToken..next_token :
          AdoptStep(t) => NewPending = { t } ]_vars

\* C13 (amended): processing a HandleClientConnection command that carries a
\* socket adds that socket's connection to the pending table when its
\* registration succeeds and nothing otherwise; the added connection is from
\* the client side, its write queue is the one buffer with the local
\* handshake, nothing of it written, and it is registered for reading and
\* writing; no other connection, no channel and not the reader cursor change.
C13_AdoptOutbound ==
    [][ \A t \in FirstConnToken..next_token :
          AdoptStep(t) =>
             /\ NewPending = { u \in { t } : t \notin DOMAIN closed' }
             /\ t \notin NewPending =>
                   closed'[t] = "error" /\ t \notin DOMAIN poll'
             /\ t \in NewPending =>
                   /\ pending_connections'[t].socket_token = t
                   /\ ~pending_connections'[t].from_server
                   /\ pending_connections'[t].write_queue = << LocalHandshake >>
                   /\ pending_connections'[t].write_off = 0
                   /\ t \in DOMAIN poll' /\ poll'[t] = "rw"
             /\ \A u \in DOMAIN pending_connections :
                   /\ u \in DOMAIN pending_connections'
                   /\ pending_connections'[u] = pending_connections[u]
             /\ \A u \in DOMAIN poll :
                   u \in DOMAIN poll' /\ poll'[u] = poll[u]
             /\ DOMAIN poll' \ DOMAIN poll \subseteq { t }
             /\ UNCHANGED << reader_channel_index, reader_channels,
                             event_handler_channel >>
      ]_vars

\* C13 witness: a connection handed in by a client is pending with the local
\* handshake queued and unwritten, registered for reading and writing
C13_Witness ==
    \E t \in DOMAIN pending_connections :
        /\ ~pending_connections[t].from_server
        /\ pending_connections[t].write_queue = << LocalHandshake >>
        /\ pending_connections[t].write_off = 0
        /\ pending_connections[t].api_version = 0
        /\ poll[t] = "rw"
        /\ reader_channel_index = 0


\* ------------------------------------------------ handshake across the wire
\* A peer running this code with identity (token, value) writes its handshake
\* to a connection accepted from the listener; readable reads it.
WireTokens == { <<>>, << 97 >>, << 97, 98 >>, << 97, TOKEN_VALUE_SEP >> }
WireValues == { 0, 7, 12, 305 }
WirePairs  == [ token : WireTokens, value : WireValues ]

\* BigInt::from_str_radix(10) of decimal text
RECURSIVE from_str_radix(_)
from_str_radix(text) ==
    IF text = <<>> THEN 0
    ELSE 10 * from_str_radix(SubSeq(text, 1, Len(text) - 1)) + (text[Len(text)] - 48)

InitWire ==
    /\ pending_connections =
          (FirstConnToken :> [TcpConn_new(FirstConnToken) EXCEPT !.from_server = TRUE])
    /\ poll = (FirstConnToken :> "r")
    /\ reader_channel_index = 0
    /\ reader_channels = <<>>
    /\ event_handler_channel = <<>>
    /\ receiver_channel = <<>>
    /\ channel_ready = FALSE
    /\ events = <<>>
    /\ pc = "poll"
    /\ sockets = (FirstConnToken :> <<>>)
    /\ backlog = 0
    /\ next_token = FirstConnToken + 1
    /\ commands_sent = 0
    /\ closed = Empty

\* the peer's write_handshake_info and flush: more bytes of its buffer arrive
WireSend ==
    /\ \E t \in DOMAIN sockets, p \in WirePairs :
         \E n \in 1..Len(send_data(p.token, p.value)) :
            /\ n > Len(sockets[t])
            /\ SubSeq(send_data(p.token, p.value), 1, Len(sockets[t])) = sockets[t]
            /\ sockets' = [sockets EXCEPT ![t] = SubSeq(send_data(p.token, p.value), 1, n)]
    /\ UNCHANGED << pending_connections, poll, reader_channel_index, reader_channels,
                    event_handler_channel, receiver_channel, channel_ready, events, pc,
                    backlog, next_token, commands_sent, closed >>

WireReadable ==
    /\ \E t \in DOMAIN pending_connections :
         \E ver_error, tv_error, send_ok \in BOOLEAN :
            Apply(readable(Engine, t, ver_error, tv_error, send_ok))
    /\ UNCHANGED << receiver_channel, channel_ready, events, pc, backlog,
                    next_token, commands_sent >>

NextWire == WireSend \/ WireReadable

SpecWire == InitWire /\ [][NextWire]_vars

\* a pair whose token holds no separator byte
ValidPair(p) == SepIndex(p.token, 1) = 0

\* C14: when all bytes of the handshake written for a pair (token, value)
\* whose token holds no separator are on the socket of a connection whose
\* identity is not read yet, a readable without read error leaves the
\* connection with exactly one identity: that token, and decimal text whose
\* number is that value.  The handshake is version 1 in 4 bytes, the byte
\* count of the payload in 4 bytes, the token, one separator, the decimal text.
C14_RoundTrip ==
    [][ \A t \in DOMAIN pending_connections : \A p \in WirePairs :
          ( /\ ValidPair(p)
            /\ sockets[t] = send_data(p.token, p.value)
            /\ pending_connections[t].conn_value = <<>>
            /\ StepIs(readable(Engine, t, FALSE, FALSE, TRUE)) )
          => /\ send_data(p.token, p.value)
                  = << 0, 0, 0, 1 >>
                    \o << 0, 0, 0, Len(p.token) + 1 + Len(to_str_radix(p.value)) >>
                    \o p.token \o << TOKEN_VALUE_SEP >> \o to_str_radix(p.value)
             /\ t \in DOMAIN pending_connections'
             /\ pending_connections'[t].api_version = CURRENT_API_VERSION
             /\ Len(pending_connections'[t].conn_value) = 1
             /\ pending_connections'[t].conn_value[1].token = p.token
             /\ from_str_radix(pending_connections'[t].conn_value[1].value) = p.value
      ]_vars

\* C14 witness: the handshake of ("ab", 305) is on the socket and the
\* connection holds the identity read from it
C14_Witness ==
    \E t \in DOMAIN pending_connections :
        /\ sockets[t] = << 0, 0, 0, 1,  0, 0, 0, 6,  97, 98, 124, 51, 48, 53 >>
        /\ sockets[t] = send_data(<< 97, 98 >>, 305)
        /\ Len(pending_connections[t].conn_value) = 1
        /\ pending_connections[t].conn_value[1].token = << 97, 98 >>
        /\ from_str_radix(pending_connections[t].conn_value[1].value) = 305


\* C15: a readable that completes the identity read of a connection handed
\* in by a client (HandleClientConnection) deregisters it, takes it out of
\* the pending table and sends it, with the identity just read, to the
\* reader the cursor points at (reader 0 when nothing was dispatched before);
\* the step sends no event to the event handler and takes no command from
\* the channel.
C15_OutboundDispatch ==
    [][ \A t \in DOMAIN pending_connections :
          ( /\ HandlesEventOf(t)
            /\ ~pending_connections[t].from_server
            /\ VersionKnownAfterRead(t)
            /\ IdentityRead(t) = "Done"
            /\ \E ok \in BOOLEAN : StepIs(readable(Engine, t, FALSE, FALSE, ok)) )
          => /\ t \notin DOMAIN pending_connections'
             /\ t \notin DOMAIN poll'
             /\ Len(reader_channels') = Len(reader_channels) + 1
             /\ SubSeq(reader_channels', 1, Len(reader_channels)) = reader_channels
             /\ LET e == reader_channels'[Len(reader_channels')]
                IN  /\ e.cmd = "HandleConnection"
                    /\ e.conn[1].socket_token = t
                    /\ \E p \in PeerIdentities :
                          /\ sockets[t] = send_data(p.token, p.value)
                          /\ e.conn_value = << [ socket_token |-> t, token |-> p.token,
                                                 value |-> to_str_radix(p.value) ] >>
                    /\ e.reader = IF reader_channel_index >= ReadersCount
                                  THEN 0 ELSE reader_channel_index
                    /\ reader_channels = <<>> => e.reader = 0
                    /\ reader_channel_index' = e.reader + 1
             /\ event_handler_channel' = event_handler_channel
             /\ receiver_channel' = receiver_channel
      ]_vars

\* C15 witness: the first dispatch has given a connection handed in by a
\* client to reader 0, with its identity, no event was sent and the only
\* command so far is the one that handed it in
C15_Witness ==
    /\ Len(reader_channels) = 1
    /\ reader_channels[1].cmd = "HandleConnection"
    /\ reader_channels[1].delivered
    /\ reader_channels[1].reader = 0
    /\ ~reader_channels[1].conn[1].from_server
    /\ Len(reader_channels[1].conn_value) = 1
    /\ reader_channels[1].conn[1].socket_token \notin DOMAIN pending_connections
    /\ event_handler_channel = <<>>
    /\ commands_sent = 1


\* the step handles an event of connection t the way the event loop handles
\* an event of this kind
HandlesKind(t, kind) ==
    /\ HandlesEventOf(t)
    /\ kind \in EventKinds(t)
    /\ \/ /\ handler_for(t, kind) = "close_connection"
          /\ StepIs(close_connection(Engine, t))
       \/ /\ handler_for(t, kind) = "readable"
          /\ \E ver_error, tv_error, send_ok \in BOOLEAN :
                StepIs(readable(Engine, t, ver_error, tv_error, send_ok))
       \/ /\ handler_for(t, kind) = "writable"
          /\ \E io_error, reregister_ok \in BOOLEAN :
                \E n \in AcceptedBytes(pending_connections[t]) :
                   StepIs(writable(Engine, t, n, io_error, reregister_ok))

\* the byte counts a socket reported writable takes of a connection's queue
WritableBytes(S, t) ==
    IF t \in DOMAIN S.pending_connections
    THEN { n \in AcceptedBytes(S.pending_connections[t]) :
             n > 0 \/ AcceptedBytes(S.pending_connections[t]) = { 0 } }
    ELSE { 0 }

\* C16: the step that handles an event reporting a pending connection with
\* unread bytes readable and writable at once is readable(t) followed by
\* writable(t), the socket taking at least one of the queued bytes.
C16_BothKindsHandled ==
    [][ \A t \in DOMAIN pending_connections :
          ( /\ Len(sockets[t]) > pending_connections[t].rd
            /\ HandlesKind(t, {"r", "w"}) ) =>
             \E ver_error, tv_error, send_ok, io_error, reregister_ok \in BOOLEAN :
                \E n \in WritableBytes(readable(Engine, t, ver_error, tv_error, send_ok), t) :
                   StepIs(writable(readable(Engine, t, ver_error, tv_error, send_ok),
                                   t, n, io_error, reregister_ok))
      ]_vars


\* C17: while commands queued at the wakeup wait for the event of the command
\* channel to be handled, no event of a socket is handled: the channel is
\* drained before any socket event of the same batch.
C17_CommandsFirst ==
    [][ ( /\ pc = "events"
          /\ events # <<>>
          /\ Head(events) # RECEIVER_CHANNEL_TOKEN
          /\ events' = Tail(events) )
        => \/ receiver_channel = <<>>
           \/ \A i \in 1..Len(events) : events[i] # RECEIVER_CHANNEL_TOKEN
      ]_vars


\* ------------------------------------------------------ the engine scheduled
\* The engine thread is scheduled: poll returns when the command channel is
\* ready, and the loop then takes its next step.
EngineStep ==
    \/ (channel_ready /\ Poll)
    \/ EventChannel
    \/ TryRecvOk
    \/ TryRecvErr
    \/ EventServerError
    \/ EventClose
    \/ EventAcceptable
    \/ EventReadable
    \/ EventWritable

SpecLive == Init /\ [][NextRing]_vars /\ WF_vars(EngineStep)

\* commands passed to notify so far
Processed == commands_sent - Len(receiver_channel)

\* C18: every command sent on the channel is eventually passed to notify,
\* unless the process exits on an error of the listener: with n commands
\* sent, n commands are eventually processed.
C18_CommandsProcessed ==
    \A n \in 1..RingCmds :
        (commands_sent >= n) ~> (Processed >= n \/ pc = "exit")

\* C18 witness: a command sent while the try_recv loop was running (the
\* channel is marked ready after the poll) has been passed to notify, as have
\* the commands before it
C18_Witness ==
    /\ pc = "recv"
    /\ channel_ready
    /\ commands_sent >= 2
    /\ Processed = commands_sent


\* b is what is left of a after some first bytes
IsSuffix(b, a) ==
    /\ Len(b) <= Len(a)
    /\ b = SubSeq(a, Len(a) - Len(b) + 1, Len(a))

\* C19: a pending connection accepted from the listener has nothing queued,
\* one handed in by a client has at most the local handshake queued, in one
\* buffer, some first bytes of it written; a connection sent to a reader
\* carries the handshake exactly once: the whole buffer, unwritten, when it
\* came from the listener, and the queue and write position it had in the
\* pending table (what is left of the handshake) when a client handed it in.
C19_HandshakeOnce ==
    [][ /\ \A t \in DOMAIN pending_connections' :
             LET c == pending_connections'[t]
             IN  IF c.from_server THEN c.write_queue = <<>>
                 ELSE /\ Len(c.write_queue) <= 1
                      /\ IsSuffix(RemainingBytes(c), LocalHandshake)
        /\ ( /\ Len(reader_channels') = Len(reader_channels) + 1
             /\ reader_channels'[Len(reader_channels')].cmd = "HandleConnection" )
           => LET e == reader_channels'[Len(reader_channels')].conn[1]
                  t == e.socket_token
              IN  /\ t \in DOMAIN pending_connections
                  /\ e.from_server = pending_connections[t].from_server
                  /\ IF e.from_server
                     THEN /\ pending_connections[t].write_queue = <<>>
                          /\ e.write_queue = << LocalHandshake >>
                          /\ e.write_off = 0
                     ELSE /\ e.write_queue = pending_connections[t].write_queue
                          /\ e.write_off = pending_connections[t].write_off
                          /\ Len(e.write_queue) <= 1
                          /\ IsSuffix(RemainingBytes(e), LocalHandshake)
      ]_vars

\* C19 witness: a reader was sent a connection accepted from the listener
\* with the whole handshake queued, and one handed in by a client with the
\* handshake partly written
C19_Witness ==
    \E i, j \in HandleEntries :
        /\ reader_channels[i].conn[1].from_server
        /\ reader_channels[i].conn[1].write_queue = << LocalHandshake >>
        /\ reader_channels[i].conn[1].write_off = 0
        /\ ~reader_channels[j].conn[1].from_server
        /\ reader_channels[j].conn[1].write_queue = << LocalHandshake >>
        /\ reader_channels[j].conn[1].write_off = PartialWrite


\* the pending connections whose learned token is tok
Matching(tok) ==
    { t \in DOMAIN pending_connections :
        /\ pending_connections[t].conn_value # <<>>
        /\ pending_connections[t].conn_value[1].token = tok }

\* C20: processing an AcceptPendingConnection command whose token some
\* pending connections have learned takes exactly one connection out of the
\* table, the one of them with the smallest identifier, and sends that one to
\* the reader at the cursor, which moves on by one; every other connection,
\* those with the same token and those without identity included, stays in
\* the table unchanged.
C20_AcceptsSmallest ==
    [][ \A tok \in CommandTokens :
          ( /\ receiver_channel # <<>>
            /\ Head(receiver_channel).cmd = "AcceptPendingConnection"
            /\ Head(receiver_channel).token[1] = tok
            /\ Notifies(Head(receiver_channel))
            /\ Matching(tok) # {} )
          => LET first == Min(Matching(tok))
             IN  /\ DOMAIN pending_connections' = DOMAIN pending_connections \ { first }
                 /\ \A t \in DOMAIN pending_connections' :
                       pending_connections'[t] = pending_connections[t]
                 /\ Len(reader_channels') = Len(reader_channels) + 1
                 /\ SubSeq(reader_channels', 1, Len(reader_channels)) = reader_channels
                 /\ LET e == reader_channels'[Len(reader_channels')]
                    IN  /\ e.cmd = "HandleConnection"
                        /\ e.conn[1].socket_token = first
                        /\ e.conn_value = pending_connections[first].conn_value
                        /\ e.reader = IF reader_channel_index >= ReadersCount
                                      THEN 0 ELSE reader_channel_index
                        /\ reader_channel_index' = e.reader + 1
      ]_vars

\* C20 witness: of two connections that had learned the same token the one
\* with the smaller identifier was sent to a reader and the other is pending
C20_Witness ==
    \E i \in HandleEntries : \E u \in DOMAIN pending_connections :
        /\ reader_channels[i].conn_value # <<>>
        /\ pending_connections[u].conn_value # <<>>
        /\ pending_connections[u].from_server
        /\ reader_channels[i].conn[1].from_server
        /\ pending_connections[u].conn_value[1].token = reader_channels[i].conn_value[1].token
        /\ reader_channels[i].conn[1].socket_token < u
        /\ Len(reader_channels) = 1
        /\ commands_sent = 1

====
